---- MODULE Spec2Model ----
(***************************************************************************)
(* bpfink: the kernel event pipeline (pkg/fim.go) and the consumer/state   *)
(* engine (pkg/consumers.go) as a state machine.                           *)
(*                                                                         *)
(* The FIM part models one API caller (Add / Remove / StopBPF, one call at *)
(* a time, each call a sequence of steps: every sync.Map operation and     *)
(* every kernel table operation is one step), the decode loop and the      *)
(* miss-count loop started by FIM.start, the kernel probe that feeds the   *)
(* two input channels, and the readers of the two output channels.         *)
(***************************************************************************)
EXTENDS Integers, Sequences, FiniteSets, TLC

\* ------------------------------------------------------------------ bounds
MaxInode   == 2   \* inode numbers are 1..MaxInode
MaxRecords == 2   \* records the kernel probe delivers in Spec
MaxMissed  == 1   \* missed-count notifications the kernel delivers in SpecStop
MaxCalls   == 2   \* API calls (Add, Remove, StopBPF) in Spec
MaxConsume == 2   \* Consume calls in SpecConsumer
EvRecords  == 1   \* records the kernel probe delivers in SpecEvent
EvCalls    == 3   \* Add and Remove calls in SpecEvent
BPExtra    == 2   \* SpecBP delivers chanSize + BPExtra records and missed-counts
BPTakes    == 1   \* Events a reader takes in SpecBP

\* ------------------------------------------------------- program constants
chanSize == 10
taskComLen == 16

Paths  == {"a", "b"}
Inodes == 1..MaxInode
NoIno  == 0        \* no inode: the path does not exist / no entry in the map
NoPath == ""       \* no entry in the map

\* --------------------------------------------------------------- variables
VARIABLES
    RulesTable,         \* the kernel "rules" table: the set of registered keys
    mapping,            \* FIM.mapping: key -> path
    reverse,            \* FIM.reverse: path -> key
    moduleOpen,         \* FIM.Module is loaded and not yet closed
    polling,            \* resultsMap is polling (PollStart .. PollStop)
    closeChannelLoops,  \* TRUE once close(f.closeChannelLoops) has run
    eventChannel,       \* chan []byte, capacity chanSize
    missedChannel,      \* chan uint64, capacity chanSize: what it holds
                        \* (buf) and whether it has been closed
    Events,             \* FIM.Events, capacity chanSize
    Errors,             \* FIM.Errors, capacity chanSize
    api,                \* the API call in progress, or the last one finished
    dloop,              \* the decode loop (second goroutine of start)
    mloop,              \* the miss-count loop (first goroutine of start)
    hist,               \* history: counters and what the claims speak about
    db,                 \* AgentDB: the users last saved to the store
    current,            \* UsersState.current
    next,               \* UsersState.next
    lock,               \* BaseConsumer's mutex: TRUE while held
    cons,               \* the Init / Consume call in progress, or the last one
    fm,                 \* the FileMissing poller (goroutine fm.start)
    fileExists          \* whether fm.File exists on the disk right now

fimVars == <<RulesTable, mapping, reverse, moduleOpen, polling,
             closeChannelLoops, eventChannel, missedChannel, Events, Errors,
             api, dloop, mloop, hist>>

consVars == <<db, current, next, lock, cons>>

fmVars == <<fm, fileExists>>

vars == <<fimVars, consVars, fmVars>>

\* ------------------------------------------------------------ pure helpers

\* NewKey: stat the path; the key is the inode number, an error if the path
\* does not exist.  ino is what stat finds for the path at the time of the
\* call (NoIno: nothing): the filesystem changes freely between calls, and
\* two paths may be links to one inode.
NewKey(ino) == [err |-> ino = NoIno, key |-> ino]

\* Mutant: the update refuses a key that is already registered.
UpdateElement_NoExist(rules, open, key, fault) ==
    IF open /\ ~fault /\ key \notin rules
    THEN [ok |-> TRUE,  rules |-> rules \cup {key}]
    ELSE [ok |-> FALSE, rules |-> rules]

\* elf.Module.UpdateElement on the rules table: fails on a closed module or
\* a kernel fault; otherwise the key is registered (overwrite semantics).
UpdateElement(rules, open, key, fault) ==
    IF open /\ ~fault
    THEN [ok |-> TRUE,  rules |-> rules \cup {key}]
    ELSE [ok |-> FALSE, rules |-> rules]

\* elf.Module.DeleteElement on the rules table: fails on a closed module, a
\* kernel fault or a key that is not registered (ENOENT).
DeleteElement(rules, open, key, fault) ==
    IF open /\ ~fault /\ key \in rules
    THEN [ok |-> TRUE,  rules |-> rules \ {key}]
    ELSE [ok |-> FALSE, rules |-> rules]

\* FIM.error: a non-blocking send on the Errors channel.
FIMerror(errs, e) ==
    IF Len(errs) < chanSize THEN Append(errs, e) ELSE errs

\* sync.Map.Load on mapping / reverse.
LoadMapping(m, key) == [ok |-> m[key] # NoPath, path |-> m[key]]
LoadReverse(r, name) == [ok |-> r[name] # NoIno, key |-> r[name]]

\* The keys that appear in the Watch Table (Range over mapping).
MappingKeys(m) == {k \in Inodes : m[k] # NoPath}

\* The path p is watched under the key k: in both views and in the kernel.
Registered(p, k) ==
    k \in Inodes /\ reverse[p] = k /\ mapping[k] = p /\ k \in RulesTable

\* -------------------------------------------------------------------- Init

\* A raw record as the probe wrote it (rawEvent), with the model's sequence
\* number and whether the buffer is too short to decode.
RawEvent(seq, ino, short, meta, com) ==
    [seq |-> seq, ino |-> ino, short |-> short, Mode |-> meta.Mode,
     PID |-> meta.PID, UID |-> meta.UID, Size |-> meta.Size,
     Device |-> meta.Device, Com |-> com]

NoMeta == [Mode |-> 0, PID |-> 0, UID |-> 0, Size |-> 0, Device |-> 0]
NoCom  == [i \in 1..taskComLen |-> 0]
NoRec  == RawEvent(0, NoIno, FALSE, NoMeta, NoCom)

\* /proc/<pid>/cmdline as the decode loop finds it: pid 1 runs "vim -x",
\* pid 2 has an empty cmdline (a kernel thread), pid 3 has a cmdline that
\* begins with an empty line, pid 0 has no /proc entry (the process is gone).
PIDs == 0..3
Proc ==
    [pid \in PIDs |->
        CASE pid = 1 -> [exists |-> TRUE,
                         data |-> <<118, 105, 109, 0, 45, 120, 0>>]
          [] pid = 2 -> [exists |-> TRUE, data |-> <<>>]
          [] pid = 3 -> [exists |-> TRUE, data |-> <<10, 108, 115, 0>>]
          [] OTHER   -> [exists |-> FALSE, data |-> <<>>]]

\* bufio.ScanLines: the bytes before the first newline, without a final
\* carriage return, and what follows that newline.
HasNewline(data) == \E i \in DOMAIN data : data[i] = 10
FirstNewline(data) ==
    CHOOSE i \in DOMAIN data :
        data[i] = 10 /\ \A j \in 1..(i - 1) : data[j] # 10
DropCR(l) ==
    IF Len(l) > 0 /\ l[Len(l)] = 13 THEN SubSeq(l, 1, Len(l) - 1) ELSE l
ScanLine(data) ==
    IF HasNewline(data)
    THEN [line |-> DropCR(SubSeq(data, 1, FirstNewline(data) - 1)),
          rest |-> SubSeq(data, FirstNewline(data) + 1, Len(data))]
    ELSE [line |-> DropCR(data), rest |-> <<>>]

\* strings.ReplaceAll(line, "\u0000", " ")
ReplaceAll(line) == [i \in DOMAIN line |-> IF line[i] = 0 THEN 32 ELSE line[i]]

\* The scanner loop of getCMDLine: the first line that is not empty.
RECURSIVE ScanText(_)
ScanText(data) ==
    IF data = <<>> THEN <<>>
    ELSE LET s == ScanLine(data) IN
         IF Len(s.line) > 0 THEN ReplaceAll(s.line) ELSE ScanText(s.rest)

\* FIM.getCMDLine: "" when the file cannot be opened or holds no text.
getCMDLine(pid) ==
    IF ~Proc[pid].exists THEN <<>> ELSE ScanText(Proc[pid].data)

\* The fallback of the decode loop: comLen is the index (from 0) of the
\* first zero byte of e.Com, and stays 0 when the loop finds none.
comLen(com) ==
    IF \E i \in DOMAIN com : com[i] = 0
    THEN (CHOOSE i \in DOMAIN com :
              com[i] = 0 /\ \A j \in 1..(i - 1) : com[j] # 0) - 1
    ELSE 0

\* cmdline := f.getCMDLine(e); if cmdline == "" { ... string(e.Com[:comLen]) }
cmdline(rec) ==
    LET c == getCMDLine(rec.PID) IN
    IF c = <<>> THEN SubSeq(rec.Com, 1, comLen(rec.Com)) ELSE c

\* Event{e.Mode, e.PID, e.UID, e.Size, e.Inode, e.Device, cmdline, spath}
\* (ino is Event.Inode, path is Event.Path; seq is the model's tag)
MakeEvent(rec, com, path) ==
    [seq |-> rec.seq, ino |-> rec.ino, path |-> path, Mode |-> rec.Mode,
     PID |-> rec.PID, UID |-> rec.UID, Size |-> rec.Size,
     Device |-> rec.Device, Com |-> com]

NoEvent == MakeEvent(NoRec, <<>>, NoPath)
\* again: the path was registered under this very key when the Add began
ApiIdle == [op |-> "none", name |-> NoPath, key |-> NoIno, id |-> NoIno,
            seen |-> {}, pc |-> "done", res |-> "ok", again |-> FALSE]

InitFIM ==
    /\ RulesTable = {}
    /\ mapping = [k \in Inodes |-> NoPath]
    /\ reverse = [p \in Paths |-> NoIno]
    /\ moduleOpen = TRUE
    /\ polling = TRUE
    /\ closeChannelLoops = FALSE
    /\ eventChannel = <<>>
    /\ missedChannel = [buf |-> <<>>, closed |-> FALSE]
    /\ Events = <<>>
    /\ Errors = <<>>
    /\ api = ApiIdle
    /\ dloop = [pc |-> "select", rec |-> NoRec, path |-> NoPath,
                stale |-> FALSE, delKeys |-> <<>>, emits |-> 0,
                reported |-> FALSE, com |-> <<>>, out |-> NoEvent]
    /\ mloop = [pc |-> "select", count |-> 0]
    /\ hist = [nrec |-> 0, nmissed |-> 0, ncalls |-> 0,
               allOk |-> TRUE, live |-> [p \in Paths |-> NoIno],
               sent |-> <<>>, resolved |-> <<>>,
               nerr |-> 0, nerrTaken |-> 0]

\* A users snapshot (usersState); a nil slice is the empty set / list.
Snapshot(users, includes) == [users |-> users, includes |-> includes]
NoSnapshot == Snapshot({}, <<>>)

NoDiff == [add |-> {}, del |-> {}]

\* kind: the State variant; trace: the lifecycle steps run by the call;
\* prev, td: the snapshot Teardown replaced and the error it returned;
\* diff: what Notify logged; prevOp, prevRes: the call before this one and
\* its result; same: Parse read what the Parse before it had read
ConsIdle == [op |-> "none", pc |-> "done", res |-> "ok", com |-> "",
             notes |-> <<>>, saves |-> 0, loaded |-> {}, calls |-> 0,
             kind |-> "users", trace |-> <<>>, prev |-> NoSnapshot,
             td |-> "none", diff |-> NoDiff, prevOp |-> "none",
             prevRes |-> "ok", same |-> FALSE]

InitConsumer ==
    /\ current = NoSnapshot
    /\ next = NoSnapshot
    /\ lock = FALSE
    /\ cons = ConsIdle

\* The poller of a missing file: not started yet, the file absent.
\* missed: a poll found nothing; pushed: the Events pushed so far;
\* appeared: the file has existed at some time; lateTick: the last poll ran
\* after the shutdown broadcast; afterStop: an Event was pushed for such a
\* poll
InitFileMissing ==
    /\ fm = [pc |-> "idle", missed |-> FALSE, pushed |-> <<>>,
             appeared |-> FALSE, lateTick |-> FALSE, afterStop |-> FALSE]
    /\ fileExists = FALSE

\* The store is empty on a first run.
Init == InitFIM /\ InitConsumer /\ InitFileMissing /\ db = {}

\* ------------------------------------------------------------ FIM.Add steps
othersApi == <<moduleOpen, polling, closeChannelLoops, eventChannel,
               missedChannel, Events, Errors, dloop, mloop>>

Returned(op, name, res) ==
    [ApiIdle EXCEPT !.op = op, !.name = name, !.res = res]

\* key, err := NewKey(name); if err != nil { return err }
Add_NewKey(name, ino, maxCalls) ==
    /\ api.pc = "done" /\ hist.ncalls < maxCalls
    /\ LET r == NewKey(ino) IN
       /\ api' = IF r.err THEN Returned("Add", name, "lookup_err")
                 ELSE [ApiIdle EXCEPT !.op = "Add", !.name = name,
                                      !.key = r.key, !.pc = "update",
                                      !.res = "running",
                                      !.again = Registered(name, r.key)]
       /\ hist' = [hist EXCEPT !.ncalls = @ + 1, !.allOk = @ /\ ~r.err]
    /\ UNCHANGED <<consVars, fmVars, othersApi, RulesTable, mapping, reverse>>

\* Mutant: the Watch Table entry is stored before the kernel update.
Add_UpdateElement_StoreFirst(fault) ==
    /\ api.op = "Add" /\ api.pc = "update"
    /\ LET r == UpdateElement(RulesTable, moduleOpen, api.key, fault) IN
       /\ RulesTable' = r.rules
       /\ mapping' = [mapping EXCEPT ![api.key] = api.name]
       /\ api' = IF r.ok THEN [api EXCEPT !.pc = "storeMapping"]
                 ELSE [api EXCEPT !.pc = "done", !.res = "kernel_err"]
       /\ hist' = [hist EXCEPT !.allOk = @ /\ r.ok]
    /\ UNCHANGED <<consVars, fmVars, othersApi, reverse>>

\* if err := f.Module.UpdateElement(...); err != nil { return err }
Add_UpdateElement(fault) ==
    /\ api.op = "Add" /\ api.pc = "update"
    /\ LET r == UpdateElement(RulesTable, moduleOpen, api.key, fault) IN
       /\ RulesTable' = r.rules
       /\ api' = IF r.ok THEN [api EXCEPT !.pc = "storeMapping"]
                 ELSE [api EXCEPT !.pc = "done", !.res = "kernel_err"]
       /\ hist' = [hist EXCEPT !.allOk = @ /\ r.ok]
    /\ UNCHANGED <<consVars, fmVars, othersApi, mapping, reverse>>

\* f.mapping.Store(key, name)
Add_StoreMapping ==
    /\ api.op = "Add" /\ api.pc = "storeMapping"
    /\ mapping' = [mapping EXCEPT ![api.key] = api.name]
    /\ api' = [api EXCEPT !.pc = "storeReverse"]
    /\ UNCHANGED <<consVars, fmVars, othersApi, RulesTable, reverse, hist>>

\* f.reverse.Store(name, key); return nil
Add_StoreReverse ==
    /\ api.op = "Add" /\ api.pc = "storeReverse"
    /\ reverse' = [reverse EXCEPT ![api.name] = api.key]
    /\ api' = [api EXCEPT !.pc = "done", !.res = "ok"]
    /\ hist' = [hist EXCEPT !.live[api.name] = api.key]
    /\ UNCHANGED <<consVars, fmVars, othersApi, RulesTable, mapping>>

\* --------------------------------------------------------- FIM.Remove steps

\* Mutant: Remove goes on to the kernel delete without its lookup check.
Remove_Load_NoCheck(name, maxCalls) ==
    /\ api.pc = "done" /\ hist.ncalls < maxCalls
    /\ LET r == LoadReverse(reverse, name) IN
       /\ api' = [ApiIdle EXCEPT !.op = "Remove", !.name = name,
                                 !.key = r.key, !.pc = "delete",
                                 !.res = "running"]
       /\ hist' = [hist EXCEPT !.ncalls = @ + 1, !.allOk = @ /\ r.ok,
                               !.live[name] = NoIno]
    /\ UNCHANGED <<consVars, fmVars, othersApi, RulesTable, mapping, reverse>>

\* rawKey, ok := f.reverse.Load(name); if !ok { return err }
Remove_Load(name, maxCalls) ==
    /\ api.pc = "done" /\ hist.ncalls < maxCalls
    /\ LET r == LoadReverse(reverse, name) IN
       /\ api' = IF ~r.ok THEN Returned("Remove", name, "notfound")
                 ELSE [ApiIdle EXCEPT !.op = "Remove", !.name = name,
                                      !.key = r.key, !.pc = "delete",
                                      !.res = "running"]
       /\ hist' = [hist EXCEPT !.ncalls = @ + 1, !.allOk = @ /\ r.ok,
                               !.live[name] = NoIno]
    /\ UNCHANGED <<consVars, fmVars, othersApi, RulesTable, mapping, reverse>>

\* What Remove does after a failed kernel delete: it returns the error.
RemoveAfterKernelError(a) == [a EXCEPT !.pc = "done", !.res = "kernel_err"]

\* if err := f.Module.DeleteElement(...); err != nil { return err }
Remove_DeleteElement(fault) ==
    /\ api.op = "Remove" /\ api.pc = "delete"
    /\ LET r == DeleteElement(RulesTable, moduleOpen, api.key, fault) IN
       /\ RulesTable' = r.rules
       /\ api' = IF r.ok THEN [api EXCEPT !.pc = "delMapping"]
                 ELSE RemoveAfterKernelError(api)
       /\ hist' = [hist EXCEPT !.allOk = @ /\ r.ok]
    /\ UNCHANGED <<consVars, fmVars, othersApi, mapping, reverse>>

\* id, ok := f.reverse.Load(name); f.mapping.Delete(id)
\* (a missing entry gives a nil id, whose Delete removes nothing)
Remove_DeleteMapping ==
    /\ api.op = "Remove" /\ api.pc = "delMapping"
    /\ LET r == LoadReverse(reverse, api.name) IN
       /\ mapping' = IF r.ok THEN [mapping EXCEPT ![r.key] = NoPath]
                     ELSE mapping
       /\ api' = [api EXCEPT !.id = r.key, !.pc = "delReverse"]
    /\ UNCHANGED <<consVars, fmVars, othersApi, RulesTable, reverse, hist>>

\* f.reverse.Delete(name); return nil
Remove_DeleteReverse ==
    /\ api.op = "Remove" /\ api.pc = "delReverse"
    /\ reverse' = [reverse EXCEPT ![api.name] = NoIno]
    /\ api' = [api EXCEPT !.pc = "done", !.res = "ok"]
    /\ UNCHANGED <<consVars, fmVars, othersApi, RulesTable, mapping, hist>>

\* -------------------------------------------------------- FIM.StopBPF steps
othersStop == <<mapping, reverse, eventChannel, missedChannel, Events,
                Errors, dloop, mloop>>

\* f.resultsMap.PollStop()   (a second StopBPF closes a closed channel and
\* panics: the caller stops at most once)
StopBPF_PollStop(maxCalls) ==
    /\ api.pc = "done" /\ hist.ncalls < maxCalls
    /\ ~closeChannelLoops /\ polling
    /\ polling' = FALSE
    /\ api' = [ApiIdle EXCEPT !.op = "StopBPF", !.pc = "close",
                              !.res = "running"]
    /\ hist' = [hist EXCEPT !.ncalls = @ + 1,
                            !.live = [p \in Paths |-> NoIno]]
    /\ UNCHANGED <<consVars, fmVars, othersStop, RulesTable, moduleOpen, closeChannelLoops>>

\* close(f.closeChannelLoops)
StopBPF_Close ==
    /\ api.op = "StopBPF" /\ api.pc = "close"
    /\ closeChannelLoops' = TRUE
    /\ api' = [api EXCEPT !.pc = "range"]
    /\ UNCHANGED <<consVars, fmVars, othersStop, RulesTable, moduleOpen, polling, hist>>

\* one iteration of f.mapping.Range: a best-effort kernel delete of the key
StopBPF_Range(fault) ==
    /\ api.op = "StopBPF" /\ api.pc = "range"
    /\ \E k \in MappingKeys(mapping) \ api.seen :
         LET r == DeleteElement(RulesTable, moduleOpen, k, fault) IN
         /\ RulesTable' = r.rules
         /\ api' = [api EXCEPT !.seen = @ \cup {k}]
         /\ hist' = [hist EXCEPT !.allOk = @ /\ r.ok]
    /\ UNCHANGED <<consVars, fmVars, othersStop, moduleOpen, polling, closeChannelLoops>>

\* err := f.Module.Close(); if err != nil { return err }; return nil
\* A successful Close takes the module's maps and probes away; what a
\* failed one leaves of them is the library's matter (gone: they went).
StopBPF_ModuleClose(fault, gone) ==
    /\ api.op = "StopBPF" /\ api.pc = "range"
    /\ MappingKeys(mapping) \subseteq api.seen
    /\ fault \/ gone
    /\ moduleOpen' = (moduleOpen /\ ~gone)
    /\ RulesTable' = IF gone THEN {} ELSE RulesTable
    /\ api' = [api EXCEPT !.pc = "done",
                          !.res = IF fault THEN "close_err" ELSE "ok"]
    /\ UNCHANGED <<consVars, fmVars, othersStop, polling, closeChannelLoops, hist>>

\* --------------------------------------------------------------- the kernel

\* The perf map poller hands one record to eventChannel: a record of a
\* registered inode, or a buffer too short to decode.
KernelEmit(k, short, maxRecs) ==
    /\ polling /\ moduleOpen /\ hist.nrec < maxRecs
    /\ Len(eventChannel) < chanSize
    /\ IF short THEN k = NoIno ELSE k \in RulesTable
    /\ eventChannel' = Append(eventChannel,
                          RawEvent(hist.nrec + 1, k, short, NoMeta, NoCom))
    /\ hist' = [hist EXCEPT !.nrec = @ + 1]
    /\ UNCHANGED <<consVars, fmVars, RulesTable, mapping, reverse, moduleOpen, polling,
                   closeChannelLoops, missedChannel, Events, Errors, api,
                   dloop, mloop>>

\* The same, for a record of a write by the process meta.PID, whose
\* 16-byte command name is com.
KernelEmitRaw(k, meta, com, maxRecs) ==
    /\ polling /\ moduleOpen /\ hist.nrec < maxRecs
    /\ Len(eventChannel) < chanSize
    /\ k \in RulesTable
    /\ eventChannel' = Append(eventChannel,
                          RawEvent(hist.nrec + 1, k, FALSE, meta, com))
    /\ hist' = [hist EXCEPT !.nrec = @ + 1]
    /\ UNCHANGED <<consVars, fmVars, RulesTable, mapping, reverse, moduleOpen, polling,
                   closeChannelLoops, missedChannel, Events, Errors, api,
                   dloop, mloop>>

\* The perf map poller reports a count of lost records on missedChannel.
KernelMissed(n, maxMissed) ==
    /\ polling /\ moduleOpen /\ hist.nmissed < maxMissed
    /\ ~missedChannel.closed
    /\ Len(missedChannel.buf) < chanSize
    /\ missedChannel' = [missedChannel EXCEPT !.buf = Append(@, n)]
    /\ hist' = [hist EXCEPT !.nmissed = @ + 1]
    /\ UNCHANGED <<consVars, fmVars, RulesTable, mapping, reverse, moduleOpen, polling,
                   closeChannelLoops, eventChannel, Events, Errors, api,
                   dloop, mloop>>

\* The perf map closes the channel it was handed for the lost counts.  The
\* library is free to do so once it has stopped polling; the miss-count
\* loop is written for it (ok = false).
PerfMapCloseMissed ==
    /\ ~polling /\ ~missedChannel.closed
    /\ missedChannel' = [missedChannel EXCEPT !.closed = TRUE]
    /\ UNCHANGED <<consVars, fmVars, RulesTable, mapping, reverse, moduleOpen, polling,
                   closeChannelLoops, eventChannel, Events, Errors, api,
                   dloop, mloop, hist>>

\* ---------------------------------------------------------- the decode loop
othersD == <<mapping, reverse, moduleOpen, polling, closeChannelLoops,
             missedChannel, api, mloop>>

\* select { case data := <-eventChannel: ... }
D_Read ==
    /\ dloop.pc = "select" /\ eventChannel # <<>>
    /\ dloop' = [pc |-> "decode", rec |-> Head(eventChannel),
                 path |-> NoPath, stale |-> FALSE, delKeys |-> <<>>,
                 emits |-> 0, reported |-> FALSE, com |-> <<>>,
                 out |-> NoEvent]
    /\ eventChannel' = Tail(eventChannel)
    /\ UNCHANGED <<consVars, fmVars, othersD, RulesTable, Events, Errors, hist>>

\* select { case <-f.closeChannelLoops: return }
D_Closed ==
    /\ dloop.pc = "select" /\ closeChannelLoops
    /\ dloop' = [dloop EXCEPT !.pc = "exit"]
    /\ UNCHANGED <<consVars, fmVars, othersD, RulesTable, eventChannel, Events, Errors, hist>>

\* binary.Read fails: f.error(...); continue
D_DecodeError ==
    /\ dloop.pc = "decode" /\ dloop.rec.short
    /\ Errors' = FIMerror(Errors, "decode")
    /\ hist' = [hist EXCEPT !.nerr = @ + 1]
    /\ dloop' = [dloop EXCEPT !.pc = "select", !.reported = TRUE]
    /\ UNCHANGED <<consVars, fmVars, othersD, RulesTable, eventChannel, Events>>

\* (reported: f.error was called for the record in hand)

\* Mutant: the missing entry is not checked, the Event is sent regardless.
AfterLoad_NoStaleCheck(d, r) ==
    [d EXCEPT !.pc = "send", !.path = r.path, !.stale = ~r.ok]

\* The decode loop after mapping.Load(e.Inode): the stale branch or the send.
AfterLoad(d, r) ==
    IF r.ok THEN [d EXCEPT !.pc = "send", !.path = r.path]
    ELSE [d EXCEPT !.pc = "purge", !.stale = TRUE]

\* binary.Read succeeds; cmdline := ...; path, ok := f.mapping.Load(e.Inode)
D_Resolve ==
    /\ dloop.pc = "decode" /\ ~dloop.rec.short
    /\ LET r == LoadMapping(mapping, dloop.rec.ino) IN
       /\ dloop' = AfterLoad([dloop EXCEPT !.com = cmdline(dloop.rec)], r)
       /\ hist' = [hist EXCEPT !.resolved =
                       IF r.ok THEN Append(@, dloop.rec.seq) ELSE @]
    /\ UNCHANGED <<consVars, fmVars, othersD, RulesTable, eventChannel, Events, Errors>>

\* if !ok { f.Module.DeleteElement(f.RulesTable, pkey); continue }
D_Purge(fault) ==
    /\ dloop.pc = "purge"
    /\ LET r == DeleteElement(RulesTable, moduleOpen, dloop.rec.ino, fault) IN
       /\ RulesTable' = r.rules
       /\ hist' = [hist EXCEPT !.allOk = @ /\ r.ok]
    /\ dloop' = [dloop EXCEPT !.pc = "select",
                              !.delKeys = Append(@, dloop.rec.ino)]
    /\ UNCHANGED <<consVars, fmVars, othersD, eventChannel, Events, Errors>>

\* Mutant: the newest Event overtakes the queued ones.
SendEvent_Front(evs, e) == <<e>> \o evs

\* The Events channel after the send of e.
SendEvent(evs, e) == Append(evs, e)

\* Mutant: a non-blocking send, which drops the Event when Events is full.
D_Send_NonBlocking ==
    /\ dloop.pc = "send"
    /\ IF Len(Events) < chanSize
       THEN /\ Events' = SendEvent(Events,
                               MakeEvent(dloop.rec, dloop.com, dloop.path))
            /\ hist' = [hist EXCEPT !.sent = Append(@, dloop.rec.seq)]
            /\ dloop' = [dloop EXCEPT !.pc = "select", !.emits = @ + 1,
                            !.out = MakeEvent(dloop.rec, dloop.com,
                                              dloop.path)]
       ELSE /\ dloop' = [dloop EXCEPT !.pc = "select"]
            /\ UNCHANGED <<Events, hist>>
    /\ UNCHANGED <<consVars, fmVars, othersD, RulesTable, eventChannel, Errors>>

\* f.Events <- Event{...}: blocks while the channel is full
D_Send ==
    /\ dloop.pc = "send" /\ Len(Events) < chanSize
    /\ Events' = SendEvent(Events, MakeEvent(dloop.rec, dloop.com, dloop.path))
    /\ hist' = [hist EXCEPT !.sent = Append(@, dloop.rec.seq)]
    /\ dloop' = [dloop EXCEPT !.pc = "select", !.emits = @ + 1,
                              !.out = MakeEvent(dloop.rec, dloop.com,
                                                dloop.path)]
    /\ UNCHANGED <<consVars, fmVars, othersD, RulesTable, eventChannel, Errors>>

\* ------------------------------------------------------ the miss-count loop
othersM == <<RulesTable, mapping, reverse, moduleOpen, polling,
             closeChannelLoops, eventChannel, Events, api, dloop>>

\* select { case missedCount, ok := <-missedChannel: if !ok { return } ... }
\* A closed channel hands out what it still holds, then ok = false.
M_Read ==
    /\ mloop.pc = "select"
    /\ IF missedChannel.buf # <<>>
       THEN /\ mloop' = [pc |-> "report", count |-> Head(missedChannel.buf)]
            /\ missedChannel' = [missedChannel EXCEPT !.buf = Tail(@)]
       ELSE /\ missedChannel.closed
            /\ mloop' = [mloop EXCEPT !.pc = "exit"]
            /\ UNCHANGED missedChannel
    /\ UNCHANGED <<consVars, fmVars, othersM, Errors, hist>>

\* select { case <-f.closeChannelLoops: return }
M_Closed ==
    /\ mloop.pc = "select" /\ closeChannelLoops
    /\ mloop' = [mloop EXCEPT !.pc = "exit"]
    /\ UNCHANGED <<consVars, fmVars, othersM, missedChannel, Errors, hist>>

\* f.error(xerrors.Errorf("log message count: %v", missedCount))
M_Report ==
    /\ mloop.pc = "report"
    /\ Errors' = FIMerror(Errors, "missed")
    /\ hist' = [hist EXCEPT !.nerr = @ + 1]
    /\ mloop' = [mloop EXCEPT !.pc = "select"]
    /\ UNCHANGED <<consVars, fmVars, othersM, missedChannel>>

\* ------------------------------------------- readers of the output channels
\* maxTakes bounds the Events ever taken (those sent and no longer queued).
TakeEvent(maxTakes) ==
    /\ Events # <<>>
    /\ Len(hist.sent) - Len(Events) < maxTakes
    /\ Events' = Tail(Events)
    /\ UNCHANGED <<consVars, fmVars, RulesTable, mapping, reverse, moduleOpen, polling,
                   closeChannelLoops, eventChannel, missedChannel, Errors,
                   api, dloop, mloop, hist>>

TakeError ==
    /\ Errors # <<>>
    /\ Errors' = Tail(Errors)
    /\ hist' = [hist EXCEPT !.nerrTaken = @ + 1]
    /\ UNCHANGED <<consVars, fmVars, RulesTable, mapping, reverse, moduleOpen, polling,
                   closeChannelLoops, eventChannel, missedChannel, Events,
                   api, dloop, mloop>>


\* ===================================================== consumers.go =======
Users    == {"alice", "bob", "carol"}
Includes == {<<>>, <<"/home/alice/.ssh">>}
Coms     == {"vim"}
Kinds    == {"users", "access"}   \* the two State variants

\* userDiff: the users added (in next, not in current) and removed.
userDiff(cur, nxt) == [add |-> nxt \ cur, del |-> cur \ nxt]

\* ArrayEqual: the two lists are the same text.
ArrayEqual(a, b) == a = b

\* accessDiff: the access entries added and removed.
accessDiff(cur, nxt) == [add |-> nxt \ cur, del |-> cur \ nxt]

\* Access.IsEmpty
IsEmpty(a) == a = {}

\* Mutant: only additions count as a change.
Changed_AddOnly(cur, nxt) ==
    LET d == userDiff(cur.users, nxt.users) IN Cardinality(d.add) # 0

\* UsersState.Changed
Changed(cur, nxt) ==
    LET d == userDiff(cur.users, nxt.users) IN
    Cardinality(d.add) # 0 \/ Cardinality(d.del) # 0

\* UsersState.Created
Created(cur) == Cardinality(cur.users) = 0

\* AccessState.Changed (the entries of an access snapshot are its "users")
AccessChanged(cur, nxt) ==
    LET d == accessDiff(cur.users, nxt.users) IN
    ~IsEmpty(d.add) \/ ~IsEmpty(d.del)

\* AccessState.Created
AccessCreated(cur) == IsEmpty(cur.users)

\* State.Changed, dispatched on the variant
StateChanged(kind, cur, nxt) ==
    IF kind = "users" THEN Changed(cur, nxt) ELSE AccessChanged(cur, nxt)

\* UsersState.reload: us.current.includes against us.next.includes
reload(cur, nxt) ==
    IF ArrayEqual(cur.includes, nxt.includes) THEN "ok" ELSE "reload"

\* State.Teardown: the new current and the error returned.
\* UsersState: us.current = us.next; return us.reload()
\*   (reload runs after the assignment: the current it reads is next)
\* AccessState: as.current = as.next; return nil
Teardown(kind, cur, nxt) ==
    LET committed == nxt IN
    [current |-> committed,
     err |-> IF kind = "users" THEN reload(committed, nxt) ELSE "ok"]

\* What Notify logs: the actor and the diff it computes.
Notify(kind, cur, nxt) ==
    IF kind = "users" THEN userDiff(cur.users, nxt.users)
    ELSE accessDiff(cur.users, nxt.users)

\* Mutant: no Created suppression.
InitNotifies_NoSuppression(cur, nxt) == Changed(cur, nxt)

\* BaseConsumer.Init, line 46: whether Init notifies
InitNotifies(cur, nxt) == ~Created(cur) /\ Changed(cur, nxt)

\* BaseConsumer.Init, lines 52-55: what Init returns after Teardown
InitResult(err) == IF err = "ok" \/ err = "reload" THEN "ok" ELSE err

\* ----------------------------------------------------- BaseConsumer.Init
\* if err := bc.Load(bc.AgentDB); err != nil { return err }
\* (UsersState.Load sets current to the stored users, with no includes,
\*  and leaves it alone on an error; AccessState.Load sets current to
\*  whatever LoadAccess returned, with or without an error)
\* got: what the store's load returned; without an error, the stored value
I_Load(err, got) ==
    /\ cons.op = "none"
    /\ ~err => got = db
    /\ (err /\ cons.kind = "users") => got = {}
    /\ IF err
       THEN /\ cons' = [cons EXCEPT !.op = "Init", !.res = "load_err",
                                    !.loaded = got,
                                    !.trace = <<"Load">>]
            /\ current' = IF cons.kind = "users" THEN current
                          ELSE Snapshot(got, <<>>)
       ELSE /\ current' = Snapshot(db, <<>>)
            /\ cons' = [cons EXCEPT !.op = "Init", !.pc = "parse",
                                    !.res = "running", !.loaded = db,
                                    !.trace = <<"Load">>]
    /\ UNCHANGED <<fimVars, fmVars, db, next, lock>>

\* state, err := bc.Parse(); if err != nil { return err }
\* (users, includes): what parse() reads from the disk at this moment; an
\* access snapshot has no include list
I_Parse(users, includes, err) ==
    /\ cons.op = "Init" /\ cons.pc = "parse"
    /\ cons.kind = "access" => includes = <<>>
    /\ IF err
       THEN /\ cons' = [cons EXCEPT !.pc = "done", !.res = "parse_err",
                                    !.trace = Append(@, "Parse")]
            /\ UNCHANGED next
       ELSE /\ next' = Snapshot(users, includes)
            /\ cons' = [cons EXCEPT !.pc = "check",
                                    !.trace = Append(@, "Parse")]
    /\ UNCHANGED <<fimVars, fmVars, db, current, lock>>

\* if !state.Created() && state.Changed() { state.Notify("baseInit") }
I_Check ==
    /\ cons.op = "Init" /\ cons.pc = "check"
    /\ LET notifies == IF cons.kind = "users"
                       THEN InitNotifies(current, next)
                       ELSE ~AccessCreated(current)
                            /\ AccessChanged(current, next) IN
       cons' = IF notifies
               THEN [cons EXCEPT !.pc = "save",
                                 !.notes = Append(@, "baseInit"),
                                 !.diff = Notify(cons.kind, current, next),
                                 !.trace = Append(@, "Notify")]
               ELSE [cons EXCEPT !.pc = "save"]
    /\ UNCHANGED <<fimVars, fmVars, db, current, next, lock>>

\* Mutant: Init goes on to Teardown after a failed Save.
I_Save_IgnoresError(err) ==
    /\ cons.op = "Init" /\ cons.pc = "save"
    /\ db' = IF err THEN db ELSE next.users
    /\ cons' = [cons EXCEPT !.pc = "teardown", !.saves = @ + 1,
                            !.trace = Append(@, "Save")]
    /\ UNCHANGED <<fimVars, fmVars, current, next, lock>>

\* if err := bc.Save(bc.AgentDB); err != nil { return err }
I_Save(err) ==
    /\ cons.op = "Init" /\ cons.pc = "save"
    /\ db' = IF err THEN db ELSE next.users
    /\ cons' = IF err
               THEN [cons EXCEPT !.pc = "done", !.res = "save_err",
                                 !.saves = @ + 1,
                                 !.trace = Append(@, "Save")]
               ELSE [cons EXCEPT !.pc = "teardown", !.saves = @ + 1,
                                 !.trace = Append(@, "Save")]
    /\ UNCHANGED <<fimVars, fmVars, current, next, lock>>

\* if err := state.Teardown(); err == nil || err == ErrReload { return nil }
\* return err
I_Teardown ==
    /\ cons.op = "Init" /\ cons.pc = "teardown"
    /\ LET r == Teardown(cons.kind, current, next) IN
       /\ current' = r.current
       /\ cons' = [cons EXCEPT !.pc = "done", !.res = InitResult(r.err),
                               !.prev = current, !.td = r.err,
                               !.trace = Append(@, "Teardown")]
    /\ UNCHANGED <<fimVars, fmVars, db, next, lock>>

\* -------------------------------------------------- BaseConsumer.Consume
\* bc.Lock(); defer bc.Unlock()   (events flow once Init has succeeded)
C_Lock(com) ==
    /\ cons.pc = "done"
    /\ \/ cons.op = "Init" /\ cons.res = "ok"
       \/ cons.op = "Consume"
    /\ ~lock
    /\ cons.calls < MaxConsume
    /\ lock' = TRUE
    /\ cons' = [ConsIdle EXCEPT !.op = "Consume", !.pc = "parse",
                                !.res = "running", !.com = com,
                                !.loaded = current.users,
                                !.calls = cons.calls + 1,
                                !.kind = cons.kind,
                                !.prevOp = cons.op, !.prevRes = cons.res]
    /\ UNCHANGED <<fimVars, fmVars, db, current, next>>

\* Mutant: Parse writes the parsed snapshot to current as well.
C_Parse_WritesCurrent(users, includes, err) ==
    /\ cons.op = "Consume" /\ cons.pc = "parse"
    /\ cons.kind = "access" => includes = <<>>
    /\ IF err
       THEN /\ cons' = [cons EXCEPT !.pc = "done", !.res = "parse_err",
                                    !.trace = Append(@, "Parse")]
            /\ lock' = FALSE
            /\ UNCHANGED <<current, next>>
       ELSE /\ next' = Snapshot(users, includes)
            /\ current' = Snapshot(users, includes)
            /\ cons' = [cons EXCEPT !.pc = "check",
                                    !.trace = Append(@, "Parse"),
                                    !.same = (Snapshot(users, includes) = next)]
            /\ UNCHANGED lock
    /\ UNCHANGED <<fimVars, fmVars, db>>

\* state, err := bc.Parse(); if err != nil { return err }
C_Parse(users, includes, err) ==
    /\ cons.op = "Consume" /\ cons.pc = "parse"
    /\ cons.kind = "access" => includes = <<>>
    /\ IF err
       THEN /\ cons' = [cons EXCEPT !.pc = "done", !.res = "parse_err",
                                    !.trace = Append(@, "Parse")]
            /\ lock' = FALSE
            /\ UNCHANGED next
       ELSE /\ next' = Snapshot(users, includes)
            /\ cons' = [cons EXCEPT !.pc = "check",
                                    !.trace = Append(@, "Parse"),
                                    !.same = (Snapshot(users, includes) = next)]
            /\ UNCHANGED lock
    /\ UNCHANGED <<fimVars, fmVars, db, current>>

\* Mutant: Save runs on the unchanged path too, and nothing is notified.
C_Check_AlwaysSave ==
    /\ cons.op = "Consume" /\ cons.pc = "check"
    /\ cons' = [cons EXCEPT !.pc = "save"]
    /\ UNCHANGED <<fimVars, fmVars, db, current, next, lock>>

\* if !state.Changed() { return state.Teardown() }; state.Notify(e.Com)
C_Check ==
    /\ cons.op = "Consume" /\ cons.pc = "check"
    /\ cons' = IF ~StateChanged(cons.kind, current, next)
               THEN [cons EXCEPT !.pc = "teardown"]
               ELSE [cons EXCEPT !.pc = "save",
                                 !.notes = Append(@, cons.com),
                                 !.diff = Notify(cons.kind, current, next),
                                 !.trace = Append(@, "Notify")]
    /\ UNCHANGED <<fimVars, fmVars, db, current, next, lock>>

\* Mutant: a failed Save is ignored and the call goes on to Teardown.
C_Save_IgnoresError(err) ==
    /\ cons.op = "Consume" /\ cons.pc = "save"
    /\ db' = IF err THEN db ELSE next.users
    /\ cons' = [cons EXCEPT !.pc = "teardown", !.saves = @ + 1,
                            !.trace = Append(@, "Save")]
    /\ UNCHANGED <<fimVars, fmVars, current, next, lock>>

\* if err := bc.Save(bc.AgentDB); err != nil { return err }
C_Save(err) ==
    /\ cons.op = "Consume" /\ cons.pc = "save"
    /\ db' = IF err THEN db ELSE next.users
    /\ cons' = IF err
               THEN [cons EXCEPT !.pc = "done", !.res = "save_err",
                                 !.saves = @ + 1,
                                 !.trace = Append(@, "Save")]
               ELSE [cons EXCEPT !.pc = "teardown", !.saves = @ + 1,
                                 !.trace = Append(@, "Save")]
    /\ lock' = IF err THEN FALSE ELSE lock
    /\ UNCHANGED <<fimVars, fmVars, current, next>>

\* Mutant: Teardown reports its result and does not commit next.
C_Teardown_NoCommit ==
    /\ cons.op = "Consume" /\ cons.pc = "teardown"
    /\ LET r == Teardown(cons.kind, current, next) IN
       cons' = [cons EXCEPT !.pc = "done", !.res = r.err,
                            !.prev = current, !.td = r.err,
                            !.trace = Append(@, "Teardown")]
    /\ lock' = FALSE
    /\ UNCHANGED <<fimVars, fmVars, db, current, next>>

\* return state.Teardown()
C_Teardown ==
    /\ cons.op = "Consume" /\ cons.pc = "teardown"
    /\ LET r == Teardown(cons.kind, current, next) IN
       /\ current' = r.current
       /\ cons' = [cons EXCEPT !.pc = "done", !.res = r.err,
                               !.prev = current, !.td = r.err,
                               !.trace = Append(@, "Teardown")]
    /\ lock' = FALSE
    /\ UNCHANGED <<fimVars, fmVars, db, next>>

\* ===================================================== FileMissing ========
File == "/etc/missing"

othersFM == <<RulesTable, mapping, reverse, moduleOpen, polling,
              closeChannelLoops, eventChannel, missedChannel, Errors, api,
              dloop, mloop, hist>>

\* Event{Path: fm.File, Mode: 1}: every other field has Go's zero value
FoundEvent(file) ==
    [Mode |-> 1, PID |-> 0, UID |-> 0, Size |-> 0, Inode |-> 0,
     Device |-> 0, Com |-> "", Path |-> file]

\* The file is created / deleted by somebody else.
FileAppears ==
    /\ ~fileExists
    /\ fileExists' = TRUE
    /\ fm' = [fm EXCEPT !.appeared = TRUE]
    /\ UNCHANGED <<consVars, othersFM, Events>>

FileVanishes ==
    /\ fileExists
    /\ fileExists' = FALSE
    /\ UNCHANGED <<consVars, othersFM, Events, fm>>

\* NewFileMissing: go fm.start(events)
NewFileMissing ==
    /\ fm.pc = "idle"
    /\ fm' = [fm EXCEPT !.pc = "tick"]
    /\ UNCHANGED <<consVars, othersFM, Events, fileExists>>

\* for range time.Tick(pollingDuration) { if _, err := os.Stat(fm.File) ...
\* one tick of the timer: the file is there (go on to the send) or not
FM_Tick ==
    /\ fm.pc = "tick"
    /\ fm' = IF fileExists
             THEN [fm EXCEPT !.pc = "send", !.lateTick = closeChannelLoops]
             ELSE [fm EXCEPT !.missed = TRUE, !.lateTick = closeChannelLoops]
    /\ UNCHANGED <<consVars, othersFM, Events, fileExists>>

\* Mutant: the poller goes on polling after the push.
FM_Send_KeepsPolling ==
    /\ fm.pc = "send" /\ Len(Events) < chanSize
    /\ Events' = Append(Events, FoundEvent(File))
    /\ fm' = [fm EXCEPT !.pc = "tick",
                        !.pushed = Append(@, FoundEvent(File)),
                        !.afterStop = @ \/ fm.lateTick]
    /\ UNCHANGED <<consVars, othersFM, fileExists>>

\* events <- Event{Path: fm.File, Mode: 1}; return
\* (a plain send: it waits while the channel is full)
FM_Send ==
    /\ fm.pc = "send" /\ Len(Events) < chanSize
    /\ Events' = Append(Events, FoundEvent(File))
    /\ fm' = [fm EXCEPT !.pc = "exit",
                        !.pushed = Append(@, FoundEvent(File)),
                        !.afterStop = @ \/ fm.lateTick]
    /\ UNCHANGED <<consVars, othersFM, fileExists>>

\* ---------------------------------------------------------- specifications
ApiSteps ==
    \/ \E f \in BOOLEAN : Add_UpdateElement(f)
    \/ Add_StoreMapping
    \/ Add_StoreReverse
    \/ \E f \in BOOLEAN : Remove_DeleteElement(f)
    \/ Remove_DeleteMapping
    \/ Remove_DeleteReverse
    \/ StopBPF_Close
    \/ \E f \in BOOLEAN : StopBPF_Range(f)
    \/ \E f, g \in BOOLEAN : StopBPF_ModuleClose(f, g)

DecodeLoop ==
    \/ D_Read
    \/ D_Closed
    \/ D_DecodeError
    \/ D_Resolve
    \/ \E f \in BOOLEAN : D_Purge(f)
    \/ D_Send

MissLoop == M_Read \/ M_Closed \/ M_Report

StopCall ==
    \/ StopBPF_Close
    \/ \E f \in BOOLEAN : StopBPF_Range(f)
    \/ \E f, g \in BOOLEAN : StopBPF_ModuleClose(f, g)

\* Spec: the Watch Table and the decode loop.  The kernel reports no lost
\* records here, so the miss-count loop only waits for the shutdown (its
\* reads and reports are part of SpecBP and SpecStop).
Next ==
    \/ \E p \in Paths, k \in Inodes \cup {NoIno} : Add_NewKey(p, k, MaxCalls)
    \/ \E p \in Paths : Remove_Load(p, MaxCalls)
    \/ StopBPF_PollStop(MaxCalls)
    \/ ApiSteps
    \/ DecodeLoop
    \/ M_Closed
    \/ \E k \in Inodes : KernelEmit(k, FALSE, MaxRecords)
    \/ KernelEmit(NoIno, TRUE, MaxRecords)
    \/ TakeEvent(MaxRecords)
    \/ TakeError

Spec == Init /\ [][Next]_vars

\* Back-pressure: one watched file, no undecodable buffers, more records and
\* missed-counts than the channels hold, a reader that takes at most BPTakes
\* Events, and nobody reading the Errors channel.
BPMsgs == chanSize + BPExtra

NextBP ==
    \/ Add_NewKey("a", 1, 1)
    \/ Add_UpdateElement(FALSE)
    \/ Add_StoreMapping
    \/ Add_StoreReverse
    \/ D_Read
    \/ D_Resolve
    \/ \E f \in BOOLEAN : D_Purge(f)
    \/ D_Send
    \/ M_Read
    \/ M_Report
    \/ KernelEmit(1, FALSE, BPMsgs)
    \/ KernelMissed(1, BPMsgs)
    \/ TakeEvent(BPTakes)

SpecBP == Init /\ [][NextBP]_vars

\* Shutdown under load: one watched file, more records than the Events
\* channel holds, then StopBPF.  The goroutines of start and the caller of
\* StopBPF are scheduled fairly; the kernel and the reader of Events are not
\* obliged to do anything.
NextStop ==
    \/ Add_NewKey("a", 1, 2)
    \/ Add_UpdateElement(FALSE)
    \/ Add_StoreMapping
    \/ Add_StoreReverse
    \/ StopBPF_PollStop(2)
    \/ StopBPF_Close
    \/ \E f \in BOOLEAN : StopBPF_Range(f)
    \/ \E f, g \in BOOLEAN : StopBPF_ModuleClose(f, g)
    \/ D_Read
    \/ D_Closed
    \/ D_Resolve
    \/ \E f \in BOOLEAN : D_Purge(f)
    \/ D_Send
    \/ M_Read
    \/ M_Closed
    \/ M_Report
    \/ KernelEmit(1, FALSE, BPMsgs)
    \/ KernelMissed(1, MaxMissed)
    \/ PerfMapCloseMissed
    \/ TakeEvent(BPTakes)

SpecStop ==
    /\ Init
    /\ [][NextStop]_vars
    /\ WF_vars(DecodeLoop)
    /\ WF_vars(MissLoop)
    /\ WF_vars(StopCall)

\* Repeated Add: Add calls alone, with a kernel that never faults, next to
\* the decode loop.
NextAdd ==
    \/ \E p \in Paths, k \in Inodes \cup {NoIno} : Add_NewKey(p, k, MaxCalls)
    \/ Add_UpdateElement(FALSE)
    \/ Add_StoreMapping
    \/ Add_StoreReverse
    \/ \E k \in Inodes : KernelEmit(k, FALSE, MaxRecords)
    \/ D_Read
    \/ D_Resolve
    \/ \E f \in BOOLEAN : D_Purge(f)
    \/ D_Send
    \/ TakeEvent(MaxRecords)

SpecAdd == Init /\ [][NextAdd]_vars

\* The content of Events: two paths and the inodes they may stand for,
\* added, replaced and removed by a kernel that never faults; records
\* with every field set, from processes with and without argument text and
\* with command names of every length.
Metas ==
    {[Mode |-> 1, PID |-> 1, UID |-> 1000, Size |-> 42, Device |-> 2049],
     [Mode |-> 2, PID |-> 2, UID |-> 33, Size |-> 7, Device |-> 64768],
     [Mode |-> 1, PID |-> 3, UID |-> 1001, Size |-> 9, Device |-> 2050],
     [Mode |-> 2, PID |-> 0, UID |-> 1002, Size |-> 11, Device |-> 2051]}

\* n name bytes, then zeros, and one more byte at position m if m > n
ComOf(n, m) ==
    [i \in 1..taskComLen |->
        IF i <= n THEN 96 + i ELSE IF i = m THEN 122 ELSE 0]

ComArrays ==
    {ComOf(n, 0) : n \in 0..taskComLen} \cup {ComOf(n, taskComLen) : n \in {0, 3}}

\* every command name for the processes without argument text, one for
\* the others
RawInputs ==
    {[meta |-> m, com |-> c] : m \in {x \in Metas : getCMDLine(x.PID) = <<>>},
                               c \in ComArrays}
    \cup {[meta |-> m, com |-> ComOf(3, 0)] : m \in Metas}

NextEvent ==
    \/ \E p \in Paths, k \in Inodes : Add_NewKey(p, k, EvCalls)
    \/ Add_UpdateElement(FALSE)
    \/ Add_StoreMapping
    \/ Add_StoreReverse
    \/ \E p \in Paths : Remove_Load(p, EvCalls)
    \/ Remove_DeleteElement(FALSE)
    \/ Remove_DeleteMapping
    \/ Remove_DeleteReverse
    \/ \E k \in Inodes, r \in RawInputs :
           KernelEmitRaw(k, r.meta, r.com, EvRecords)
    \/ D_Read
    \/ D_Resolve
    \/ \E f \in BOOLEAN : D_Purge(f)
    \/ D_Send
    \/ TakeEvent(EvRecords)

SpecEvent == Init /\ [][NextEvent]_vars

\* The consumer engine: a store left by an earlier run (or empty), one Init,
\* then Consume calls; what parse() finds on disk is an input of each call.
InitC ==
    /\ InitFIM /\ InitFileMissing
    /\ current = NoSnapshot /\ next = NoSnapshot /\ lock = FALSE
    /\ cons \in {[ConsIdle EXCEPT !.kind = k] : k \in Kinds}
    /\ db \in SUBSET Users

NextC ==
    \/ \E e \in BOOLEAN, g \in SUBSET Users : I_Load(e, g)
    \/ \E u \in SUBSET Users, i \in Includes, e \in BOOLEAN : I_Parse(u, i, e)
    \/ I_Check
    \/ \E e \in BOOLEAN : I_Save(e)
    \/ I_Teardown
    \/ \E c \in Coms : C_Lock(c)
    \/ \E u \in SUBSET Users, i \in Includes, e \in BOOLEAN : C_Parse(u, i, e)
    \/ C_Check
    \/ \E e \in BOOLEAN : C_Save(e)
    \/ C_Teardown

SpecConsumer == InitC /\ [][NextC]_vars

\* The watch-gap poller: one missing file that comes and goes, the reader of
\* Events, and the shutdown of the pipeline.  The poller's goroutine and the
\* caller of StopBPF are scheduled fairly.
Poller == FM_Tick \/ FM_Send

NextFM ==
    \/ NewFileMissing
    \/ FM_Tick
    \/ FM_Send
    \/ FileAppears
    \/ FileVanishes
    \/ TakeEvent(BPTakes)
    \/ StopBPF_PollStop(1)
    \/ StopBPF_Close
    \/ \E f, g \in BOOLEAN : StopBPF_ModuleClose(f, g)
    \/ D_Closed
    \/ M_Closed

SpecFM ==
    /\ Init
    /\ [][NextFM]_vars
    /\ WF_vars(Poller)
    /\ WF_vars(StopCall)

\* ================================================================ claims ==
Quiescent == api.pc = "done" /\ dloop.pc # "purge"

\* C1 (as claimed): whenever no Add or Remove is under way, mapping holds
\* (k, p) exactly when reverse holds (p, k); and after a successful Remove(p)
\* the key p was registered under resolves to no path.
C1_ViewsConsistent ==
    api.pc = "done" =>
        /\ \A k \in Inodes, p \in Paths : mapping[k] = p <=> reverse[p] = k
        /\ (api.op = "Remove" /\ api.res = "ok") => mapping[api.key] = NoPath

\* C2 (as claimed): after any sequence of operations that all succeeded, and
\* with no Add, Remove, purge or StopBPF mid-way, the keys registered in the
\* kernel rules table are exactly the keys of the Watch Table.
C2_KernelMatchesTable ==
    (hist.allOk /\ Quiescent) => RulesTable = MappingKeys(mapping)

\* C3 (as claimed): once Add(p) has returned success, and until Remove(p) or
\* StopBPF is called, the key Add registered for p is in the Watch Table and
\* in the kernel rules table, whatever the decode loop does meanwhile.
C3_AddSafeWithDispatch ==
    \A p \in Paths :
        hist.live[p] # NoIno =>
            /\ mapping[hist.live[p]] # NoPath
            /\ hist.live[p] \in RulesTable

\* C4 (as claimed): when the kernel delete of Remove(p) fails, Remove returns
\* the error and p is nevertheless gone from both views.
C4_RemoveBestEffort ==
    (api.op = "Remove" /\ api.pc = "done" /\ api.res = "kernel_err") =>
        /\ reverse[api.name] = NoIno
        /\ mapping[api.key] = NoPath

\* C5: a decoded record whose inode has no entry in the Watch Table when it
\* is resolved gets exactly one kernel delete, for its own inode, and no
\* Event; the loop then goes back to its select.
C5_StaleKey ==
    dloop.stale =>
        /\ dloop.emits = 0
        /\ \A i \in DOMAIN Events : Events[i].seq # dloop.rec.seq
        /\ \/ dloop.pc = "purge" /\ dloop.delKeys = <<>>
           \/ dloop.pc \in {"select", "exit"}
              /\ dloop.delKeys = <<dloop.rec.ino>>

C5_Witness ==
    dloop.stale /\ dloop.pc = "select" /\ dloop.delKeys = <<dloop.rec.ino>>

\* C7: two Events of the same inode leave in the order in which the kernel
\* delivered their records: in the Events channel, and in everything sent.
C7_PerInodeOrder ==
    /\ \A i, j \in DOMAIN Events :
          (i < j /\ Events[i].ino = Events[j].ino)
              => Events[i].seq < Events[j].seq
    /\ \A i, j \in DOMAIN hist.sent : i < j => hist.sent[i] < hist.sent[j]
    /\ \A i \in DOMAIN Events :
          Events[i].seq = hist.sent[Len(hist.sent) - Len(Events) + i]

C7_Witness ==
    Len(Events) >= 2 /\ Events[1].ino = Events[2].ino /\ dloop.pc = "select"

\* C8 (as claimed): once closeChannelLoops is closed, no step takes a record
\* from eventChannel or a count from missedChannel.
C8_NoReadAfterClose ==
    [][closeChannelLoops =>
          /\ Len(eventChannel') >= Len(eventChannel)
          /\ Len(missedChannel'.buf) >= Len(missedChannel.buf)]_vars

\* C6: a record that resolved to a watched path is never dropped: it has been
\* sent, or the decode loop stands at its send, where it waits while Events
\* holds chanSize entries; errors reported on Errors never block: the
\* reporting step can always be taken, and of the errors reported so far
\* exactly those that found the channel full are missing.
C6_BackPressure ==
    /\ Len(Events) <= chanSize
    /\ hist.resolved = IF dloop.pc = "send"
                       THEN Append(hist.sent, dloop.rec.seq) ELSE hist.sent
    /\ (dloop.pc = "send" /\ Len(Events) = chanSize) => ~ENABLED D_Send
    /\ (dloop.pc = "send" /\ Len(Events) < chanSize) => ENABLED D_Send
    /\ mloop.pc = "report" => ENABLED M_Report
    /\ (dloop.pc = "decode" /\ dloop.rec.short) => ENABLED D_DecodeError
    /\ Len(Errors) <= chanSize
    /\ hist.nerrTaken = 0 =>
          Len(Errors) = IF hist.nerr < chanSize THEN hist.nerr ELSE chanSize

\* The decode loop waits at its send with Events full, after the reader took
\* one Event, and an error has been discarded on a full Errors channel.
C6_Witness ==
    /\ dloop.pc = "send" /\ Len(Events) = chanSize
    /\ Len(hist.sent) = chanSize + 1
    /\ Len(Errors) = chanSize /\ hist.nerr > chanSize
    /\ mloop.pc = "select"

\* C9 (as claimed): after StopBPF is called, the decode loop and the
\* miss-count loop both exit in the end.
C9_StopTerminates ==
    (api.op = "StopBPF") ~> (dloop.pc = "exit" /\ mloop.pc = "exit")

\* C10: Init notifies (actor "baseInit") exactly when the loaded snapshot is
\* not empty and differs from the parsed one; with an empty loaded snapshot
\* and a non-empty parsed one it calls Save and does not notify.
InitPastCheck ==
    /\ cons.op = "Init"
    /\ \/ cons.pc \in {"save", "teardown"}
       \/ cons.pc = "done" /\ cons.res \in {"ok", "save_err"}

C10_CreatedSuppression ==
    /\ (cons.op = "Init" /\ ~InitPastCheck) => cons.notes = <<>>
    /\ InitPastCheck =>
          /\ cons.notes \in {<<>>, <<"baseInit">>}
          /\ cons.notes = <<"baseInit">> <=>
                /\ ~Created(Snapshot(cons.loaded, <<>>))
                /\ Changed(Snapshot(cons.loaded, <<>>), next)
          /\ (cons.loaded = {} /\ next.users # {} /\ cons.pc = "done") =>
                (cons.saves = 1 /\ cons.notes = <<>>)

C10_Witness ==
    /\ cons.op = "Init" /\ cons.pc = "done" /\ cons.res = "ok"
    /\ cons.loaded = {} /\ next.users = {"alice"}
    /\ cons.saves = 1 /\ cons.notes = <<>> /\ db = {"alice"}

\* C11: Init returns success exactly when it reached Teardown, whose result
\* is nil or the reload signal, after a Save that stored the parsed
\* snapshot; it returns the error of Load, Parse or Save
\* when one of them fails, and then no later step has run: Teardown was not
\* called and current still is what Load left (for a failed Load: what it
\* was before for UsersState, what the store returned for AccessState).
C11_InitOutcomes ==
    cons.op = "Init" =>
        /\ cons.pc = "done" <=> cons.res # "running"
        /\ cons.res \in {"running", "ok", "load_err", "parse_err", "save_err"}
        /\ cons.res = "ok" =>
              /\ cons.trace \in {<<"Load", "Parse", "Save", "Teardown">>,
                                 <<"Load", "Parse", "Notify", "Save",
                                   "Teardown">>}
              /\ cons.td \in {"ok", "reload"}
              /\ current = next
              /\ db = next.users
        /\ cons.res = "load_err" =>
              /\ cons.trace = <<"Load">> /\ cons.td = "none"
              /\ current = Snapshot(cons.loaded, <<>>) /\ next = NoSnapshot
              /\ cons.kind = "users" => current = NoSnapshot
        /\ cons.res = "parse_err" =>
              /\ cons.trace = <<"Load", "Parse">> /\ cons.td = "none"
              /\ current = Snapshot(cons.loaded, <<>>) /\ next = NoSnapshot
        /\ cons.res = "save_err" =>
              /\ cons.trace \in {<<"Load", "Parse", "Save">>,
                                 <<"Load", "Parse", "Notify", "Save">>}
              /\ cons.td = "none"
              /\ current = Snapshot(cons.loaded, <<>>)

\* Init succeeded after a Teardown that replaced the include list Load had
\* left.
C11_Witness ==
    /\ cons.op = "Init" /\ cons.pc = "done" /\ cons.res = "ok"
    /\ cons.td = "ok" /\ cons.kind = "users"
    /\ cons.prev.includes # current.includes

\* C12: Consume runs Parse first.  When Changed() is false for the snapshot
\* the call started with and the parsed one, it then runs only Teardown: no
\* Notify, no Save, current becomes next and Teardown's result is returned.
\* Otherwise it runs Notify with the event's command name, then Save, then
\* Teardown, and returns Teardown's result; a failing Parse or Save ends the
\* call with that error.
ChangedInCall ==
    StateChanged(cons.kind, Snapshot(cons.loaded, <<>>), next)

C12_ConsumeLifecycle ==
    (cons.op = "Consume" /\ cons.pc = "done") =>
        \/ cons.res = "parse_err" /\ cons.trace = <<"Parse">>
        \/ /\ ~ChangedInCall
           /\ cons.trace = <<"Parse", "Teardown">>
           /\ cons.notes = <<>> /\ cons.saves = 0
           /\ current = next
           /\ cons.res = cons.td /\ cons.td \in {"ok", "reload"}
        \/ /\ ChangedInCall
           /\ cons.notes = <<cons.com>>
           /\ cons.saves = 1
           /\ \/ cons.res = "save_err"
                 /\ cons.trace = <<"Parse", "Notify", "Save">>
              \/ /\ cons.trace = <<"Parse", "Notify", "Save", "Teardown">>
                 /\ db = next.users
                 /\ current = next
                 /\ cons.res = cons.td /\ cons.td \in {"ok", "reload"}

\* An unchanged Consume that still committed next over another current
\* and returned Teardown's result.
C12_Witness ==
    /\ cons.op = "Consume" /\ cons.pc = "done"
    /\ cons.trace = <<"Parse", "Teardown">>
    /\ cons.res = cons.td /\ cons.loaded # {} /\ current = next
    /\ cons.prev # current

\* C13 (as claimed): every step that writes current or next is taken while
\* the consumer's lock is held.
C13_WritesUnderLock ==
    [][(current' # current \/ next' # next) => lock]_vars

\* C14: a Parse step leaves current (and the store) alone, and a failed one
\* leaves next alone too; current changes only in Teardown, to the value of
\* next, and in Load.
C14_ParseFrame ==
    [][/\ (cons.pc = "parse" /\ cons' # cons) =>
              /\ current' = current /\ db' = db
              /\ cons'.res = "parse_err" => next' = next
       /\ current' # current =>
              \/ cons.pc = "teardown" /\ current' = next
              \/ cons.op = "none" /\ cons'.op = "Init"]_vars

\* A successful Parse of Consume left a next that differs from current.
C14_Witness ==
    /\ cons.op = "Consume" /\ cons.pc = "check"
    /\ current.users = {"alice"} /\ next.users = {"alice", "bob"}

\* C15 (as claimed): Teardown always sets current to next;
\* UsersState.Teardown returns the reload signal exactly when the include
\* list of the snapshot it replaced differs from that of next;
\* AccessState.Teardown returns nil.
C15_ReloadOnIncludes ==
    cons.td # "none" =>
        /\ current = next
        /\ cons.kind = "users" =>
              (cons.td = "reload" <=> cons.prev.includes # next.includes)
        /\ cons.kind = "users" => cons.td \in {"ok", "reload"}
        /\ cons.kind = "access" => cons.td = "ok"

\* C16: once Consume is past its check, it notified exactly when some user
\* was added or removed, and the diff it logged is (added, removed).
C16_UsersDiff ==
    (cons.op = "Consume" /\ cons.kind = "users"
        /\ cons.pc \in {"save", "teardown"}) =>
        LET added   == {u \in Users : u \in next.users /\ u \notin current.users}
            removed == {u \in Users : u \in current.users /\ u \notin next.users}
        IN  /\ cons.notes # <<>> <=> (added # {} \/ removed # {})
            /\ cons.notes # <<>> => cons.diff = [add |-> added, del |-> removed]
            /\ current.users = next.users => cons.notes = <<>>

C16_Witness ==
    /\ cons.op = "Consume" /\ cons.kind = "users" /\ cons.pc = "save"
    /\ current.users = {"alice", "bob"} /\ next.users = {"alice", "carol"}
    /\ cons.diff = [add |-> {"carol"}, del |-> {"bob"}]

\* C17: the poller pushes at most one Event, the found Event of its file
\* (Mode 1, the path, every process field zero), it has exited exactly when
\* it has pushed, and it pushes nothing before the file has appeared.
C17_WatchGap ==
    /\ Len(fm.pushed) <= 1
    /\ fm.pc = "exit" <=> Len(fm.pushed) = 1
    /\ \A i \in DOMAIN fm.pushed :
          /\ fm.pushed[i].Path = File /\ fm.pushed[i].Mode = 1
          /\ fm.pushed[i].PID = 0 /\ fm.pushed[i].UID = 0
          /\ fm.pushed[i].Size = 0 /\ fm.pushed[i].Inode = 0
          /\ fm.pushed[i].Device = 0 /\ fm.pushed[i].Com = ""
    /\ fm.pc \in {"send", "exit"} => fm.appeared
    /\ ~fm.appeared => (fm.pushed = <<>> /\ Events = <<>>)
    /\ Len(Events) <= Len(fm.pushed)

\* The poller found nothing at first, then pushed its Event and exited.
C17_Witness ==
    /\ fm.pc = "exit" /\ fm.missed
    /\ fm.pushed = <<FoundEvent(File)>> /\ Events = fm.pushed

\* C18 (as claimed): after the shutdown broadcast a running poller exits in
\* the end, and no poll made after the broadcast leads to an Event.
C18_PollerObservesStop ==
    /\ [](~fm.afterStop)
    /\ (closeChannelLoops /\ fm.pc # "idle") ~> (fm.pc = "exit")

\* C19 (as claimed): when the decode loop is done with a record that failed
\* to decode or whose key was stale, it has offered an error to the Errors
\* channel for it and emitted no Event.
C19_ErrorsReported ==
    (dloop.rec.seq # 0 /\ dloop.pc \in {"select", "exit"}
        /\ (dloop.rec.short \/ dloop.stale)) =>
        (dloop.reported /\ dloop.emits = 0)

\* C20: the steps of an Add that fails (the lookup, and the kernel update
\* that returns an error) leave both views as they are, and the failing
\* lookup leaves the kernel rules table as it is.
C20_FailedAddNoChange ==
    [][(api' # api /\ api'.op = "Add"
           /\ (api'.pc = "update" \/ api'.res \in {"lookup_err", "kernel_err"}))
        => /\ mapping' = mapping /\ reverse' = reverse
           /\ api'.res = "lookup_err" => RulesTable' = RulesTable]_vars

\* A failed kernel update of Add, with another file being watched.
C20_Witness ==
    /\ api.op = "Add" /\ api.pc = "done" /\ api.res = "kernel_err"
    /\ mapping[api.key] = NoPath /\ reverse[api.name] = NoIno
    /\ \E k \in Inodes : mapping[k] # NoPath

\* C21: a Remove of a path that the path->key view does not hold returns
\* the not-found error in its first step, so it never reaches the kernel
\* delete, and that step leaves both views and the kernel rules table alone.
C21_RemoveUnknown ==
    [][(api' # api /\ api.pc = "done" /\ api'.op = "Remove"
           /\ reverse[api'.name] = NoIno)
        => /\ api'.pc = "done" /\ api'.res = "notfound"
           /\ mapping' = mapping /\ reverse' = reverse
           /\ RulesTable' = RulesTable]_vars

\* Remove of an unknown path returned its error while another is watched.
C21_Witness ==
    /\ api.op = "Remove" /\ api.pc = "done" /\ api.res = "notfound"
    /\ reverse[api.name] = NoIno
    /\ \E p \in Paths : Registered(p, reverse[p])

\* C22: every step of an Add(p) that finds p registered under the key it
\* computed leaves both views and the kernel rules table as they are, and
\* does not fail: with p still on the same inode, a second Add(p) succeeds
\* and changes nothing.
C22_AddIdempotent ==
    [][(api' # api /\ api'.op = "Add" /\ Registered(api'.name, api'.key))
        => /\ mapping' = mapping /\ reverse' = reverse
           /\ RulesTable' = RulesTable
           /\ api'.res \in {"running", "ok"}]_vars

\* A second Add(p) on the same inode has returned success.
C22_Witness ==
    /\ api.op = "Add" /\ api.pc = "done" /\ api.res = "ok" /\ api.again
    /\ hist.ncalls = 2 /\ Registered(api.name, api.key)

\* C23 (as claimed): the Com of an emitted Event is the argument text of the
\* process when there is some, and otherwise the record's 16-byte command
\* name up to its first zero byte: all 16 bytes when none is zero.
NameOf(com) ==
    IF \E i \in DOMAIN com : com[i] = 0
    THEN SubSeq(com, 1, (CHOOSE i \in DOMAIN com :
                            com[i] = 0 /\ \A j \in 1..(i - 1) : com[j] # 0) - 1)
    ELSE com

C23_ComFallback ==
    dloop.emits = 1 =>
        dloop.out.Com = IF getCMDLine(dloop.rec.PID) # <<>>
                        THEN getCMDLine(dloop.rec.PID)
                        ELSE NameOf(dloop.rec.Com)

\* C26 (as claimed): the Event the decode loop sent has the Mode, PID, UID,
\* Size, Inode and Device of the record in hand and the path that mapping
\* held for the record's inode when it was resolved; that path is not empty
\* and is a path of a successful Add that has not been removed since (or of
\* an Add or a Remove still under way); and an entry of mapping is only
\* ever written by the store of an Add, with the path and the key of that
\* Add.
NotRemoved(p) ==
    \/ hist.live[p] # NoIno
    \/ api.op \in {"Add", "Remove"} /\ api.name = p /\ api.pc # "done"

C26_EventPath ==
    /\ [](/\ dloop.emits = 1 =>
               /\ dloop.out.Mode = dloop.rec.Mode
               /\ dloop.out.PID = dloop.rec.PID
               /\ dloop.out.UID = dloop.rec.UID
               /\ dloop.out.Size = dloop.rec.Size
               /\ dloop.out.ino = dloop.rec.ino
               /\ dloop.out.Device = dloop.rec.Device
               /\ dloop.out.path = dloop.path
               /\ dloop.out.path \in Paths
           /\ \A i \in DOMAIN Events : Events[i].path \in Paths)
    /\ [][/\ (dloop.pc = "decode" /\ dloop'.pc = "send") =>
                 /\ dloop'.path = mapping[dloop.rec.ino]
                 /\ dloop'.path # NoPath
                 /\ NotRemoved(dloop'.path)
          /\ \A k \in Inodes :
                 (mapping'[k] # mapping[k] /\ mapping'[k] # NoPath) =>
                     /\ api.op = "Add" /\ api.pc = "storeMapping"
                     /\ k = api.key /\ mapping'[k] = api.name]_vars

\* C24: once Init has succeeded, whenever no call is in progress the users
\* last saved to the store are the users of current; a Consume whose Save
\* failed left current and the store as they were, and the Consume after
\* it, parsing the same content, notifies again.
InitSucceeded ==
    cons.op = "Consume" \/ (cons.op = "Init" /\ cons.res = "ok")

C24_BaselineTracksCurrent ==
    /\ (InitSucceeded /\ cons.pc = "done") => db = current.users
    /\ (cons.op = "Consume" /\ cons.res = "save_err") =>
          (current.users = cons.loaded /\ db = cons.loaded)
    /\ (cons.op = "Consume" /\ cons.prevOp = "Consume"
          /\ cons.prevRes = "save_err" /\ cons.same
          /\ cons.pc \in {"save", "teardown", "done"}) =>
          (cons.notes = <<cons.com>> /\ cons.trace[2] = "Notify")

\* Save failed in one Consume; the next one, on the same content, notified
\* again, saved and committed.
C24_Witness ==
    /\ cons.op = "Consume" /\ cons.pc = "done" /\ cons.res = "ok"
    /\ cons.prevOp = "Consume" /\ cons.prevRes = "save_err" /\ cons.same
    /\ cons.notes = <<cons.com>> /\ db = current.users
    /\ current.users # cons.loaded

\* C25: a Consume that follows a Consume which returned nil or the reload
\* signal, and parses the same content, runs Parse and Teardown alone (no
\* Notify, no Save), leaves current as it was and returns nil.
C25_ConsumeIdempotent ==
    (cons.op = "Consume" /\ cons.pc = "done" /\ cons.same
        /\ cons.prevOp = "Consume" /\ cons.prevRes \in {"ok", "reload"}) =>
        /\ cons.trace = <<"Parse", "Teardown">>
        /\ cons.notes = <<>> /\ cons.saves = 0
        /\ cons.res = "ok"
        /\ current = cons.prev /\ current = next

\* The Consume after one that returned nil, on the same content: some
\* users and an include list.
C25_Witness ==
    /\ cons.op = "Consume" /\ cons.pc = "done" /\ cons.same
    /\ cons.prevOp = "Consume" /\ cons.prevRes = "ok"
    /\ cons.res = "ok" /\ cons.kind = "users"
    /\ current.users # {} /\ current.includes # <<>>

====
